---- MODULE Spec2Model ----
(***************************************************************************)
(* FileBackend of go-logging (file.go): a rotating log file with an        *)
(* optional asynchronous delivery queue.  The model follows the goroutines *)
(* that run through Log, Close, the consumer loop started by startLogger   *)
(* and deleteOldLog, and the file system objects they touch.               *)
(***************************************************************************)
EXTENDS Integers, Sequences, FiniteSets, Bags, TLC

\* ------------------------------------------------------------------ bounds
MaxMsgs == 4          \* Log calls over one run
MaxDay == 2           \* the wall clock runs over the days 1..MaxDay
MaxSpins == 1         \* empty receives on the closed message channel

Callers == {"g1", "g2"}     \* goroutines calling Log
Closers == {"k1", "k2"}     \* goroutines calling Close

maxFileIndex == 999

NoFile == [exists |-> FALSE]    \* no file under that name
NilMsg == 0                     \* what a receive on a closed, empty channel yields
NoOne == "none"

VARIABLES
  \* configuration, fixed by the constructor and the caller before the first Log
  asyncLen,          \* capacity of asyncMsgChan; 0: asyncMsgChan is nil (sync mode)
  MaxLines, MaxSize, Daily, Rotate,
  Filename,          \* the path of the log file, a sequence of characters
  MaxDays,           \* the retention window; a day is the unit of every time stamp
  env,               \* what the environment does in this run: subset of EnvKinds
  \* FileBackend fields
  status,            \* 0: close, 1: run
  readers,           \* goroutines holding statusLock.RLock
  lockWait,          \* goroutines blocked in statusLock.Lock
  mu,                \* holder of the embedded sync.Mutex, or NoOne
  fileWriter,        \* index into fds of w.fileWriter, 0: nil
  fds,               \* every *os.File the backend opened: TRUE while open
  maxLinesCurLines, maxSizeCurSize, dailyOpenDate,
  asyncMsgChan,      \* buffered messages
  msgChanClosed, signalChanClosed,
  consumers,         \* bag of the goroutines started at file.go:97, by position
  \* file system
  active,            \* the file at w.Filename
  archives,          \* <<date, num>> -> file, the rotated files
  others,            \* name -> entry: what else the directory of the log file holds
  today,             \* the day the clock showed when it was last read
  \* goroutines
  pc, rec,           \* Log callers: position, and the day of the record in hand
  kpc, kmsg,         \* Close callers: position, and the message being drained
  sweeps,            \* goroutines started at file.go:282 that have not run yet
  \* history
  ncalls,            \* Log calls started
  nsent,             \* messages handed on by Log (sent on the queue, or written):
                     \* the k-th one is message k
  written,           \* messages appended to a file, in order
  lost,              \* messages whose Write returned an error
  closeFx,           \* side effects performed by Close calls
  lateWrite,         \* a Write was issued on the descriptor after Close closed it
  panicked,          \* a send on (or a close of) a closed channel happened
  spins,             \* receives of the empty message from the closed channel
  skipped,           \* a re-check under the write lock said no (file.go:136)
  errs               \* the errors of doRotate that Log printed (file.go:138)

cfgvars == <<asyncLen, MaxLines, MaxSize, Daily, Rotate, Filename, MaxDays, env>>
lockvars == <<status, readers, lockWait, mu>>
fdvars == <<fileWriter, fds>>
ctrvars == <<maxLinesCurLines, maxSizeCurSize, dailyOpenDate>>
chanvars == <<asyncMsgChan, msgChanClosed, signalChanClosed>>
fsvars == <<active, archives>>
sweepvars == <<others, sweeps>>
histvars == <<ncalls, nsent, written, lost, closeFx, lateWrite, panicked, spins, skipped>>
vars == <<cfgvars, lockvars, fdvars, ctrvars, chanvars, consumers, fsvars, sweepvars,
          today, pc, rec, kpc, kmsg, histvars, errs>>

\* renameFails: os.Rename may fail; openFails: os.OpenFile may fail;
\* lateRecords: a record may carry an earlier day than the clock shows;
\* dayChange: midnight may pass during the run;
\* sweep: the goroutines that doRotate starts for deleteOldLog get to run
EnvKinds == {"renameFails", "openFails", "lateRecords", "dayChange", "sweep"}

\* ------------------------------------------------------------------ helpers
\* len(msg): every formatted record ends in '\n'; the nil message is empty
MsgLen(m) == IF m = NilMsg THEN 0 ELSE 1 + (m % 2)

RECURSIVE SumLen(_)
SumLen(s) == IF s = <<>> THEN 0 ELSE MsgLen(Head(s)) + SumLen(Tail(s))

\* fInfo.Size() of a file
FileSize(f) == SumLen(f.lines)

NewFile(day) == [exists |-> TRUE, lines |-> <<>>, mtime |-> day]

\* time.Now() (and the kernel's clock): the day read now
Clock == IF "dayChange" \in env THEN today..MaxDay ELSE {today}

\* number of descriptors the backend holds open
OpenCount == Cardinality({i \in DOMAIN fds : fds[i]})

WriterOpen == fileWriter # 0 /\ fds[fileWriter]

\* positions of a consumer goroutine (file.go:97-106): in the select, or
\* holding a received message it has not written yet
AtSelect == [pc |-> "select", msg |-> NilMsg]
Holding(m) == [pc |-> "write", msg |-> m]

\* number of consumer goroutines that have not returned
LiveConsumers == BagCardinality(consumers)

\* ------------------------------------------------------------------ file.go:112-117
\* a needRotate that lets the counters reach the limits
needRotateStrict(size, day) ==
  \/ (MaxLines > 0 /\ maxLinesCurLines > MaxLines)
  \/ (MaxSize > 0 /\ maxSizeCurSize > MaxSize)
  \/ (Daily /\ day # dailyOpenDate)

needRotate(size, day) ==
  \/ (MaxLines > 0 /\ maxLinesCurLines >= MaxLines)
  \/ (MaxSize > 0 /\ maxSizeCurSize >= MaxSize)
  \/ (Daily /\ day # dailyOpenDate)

\* ------------------------------------------------------------------ file.go:177-188
\* write runs under w.Lock from its first to its last effect: one step, taken
\* when the mutex is free.  A Write on a nil or closed *os.File returns an
\* error; a Write of the empty (nil) message succeeds and appends nothing.
write(msg) ==
  /\ mu = NoOne
  /\ IF WriterOpen
       THEN /\ IF msg # NilMsg /\ active.exists
                 THEN \E now \in Clock :
                        /\ today' = now
                        /\ active' = [active EXCEPT !.lines = Append(@, msg), !.mtime = now]
                        /\ written' = Append(written, msg)
                 ELSE UNCHANGED <<today, active, written>>
            /\ maxLinesCurLines' = maxLinesCurLines + 1
            /\ maxSizeCurSize' = maxSizeCurSize + MsgLen(msg)
            /\ lost' = lost
       ELSE /\ lost' = lost \cup {msg}
            /\ UNCHANGED <<today, active, written, maxLinesCurLines, maxSizeCurSize>>
  /\ lateWrite' = (lateWrite \/ closeFx.fdClose > 0)
  /\ UNCHANGED <<dailyOpenDate, archives, mu>>

\* ------------------------------------------------------------------ file.go:84-110, 190-213
\* createLogFile opens (and creates) the file at w.Filename; initFd sets the
\* counters from what the file holds; on success the status is set to 1 and,
\* in async mode, one more consumer goroutine is started.
OpenOutcomes == IF "openFails" \in env THEN BOOLEAN ELSE {TRUE}

\* a count that takes every opened file for empty
noLines(file) == 0

\* file.go:215-240 the line separators in the file: every message ends in one
lines(file) == Len(file.lines)

startLogger(openOk) ==
  IF ~openOk
    THEN UNCHANGED <<fdvars, ctrvars, status, consumers, active, today>>
    ELSE \E now \in Clock :
         LET file == IF active.exists THEN active ELSE NewFile(now)
             old == IF fileWriter # 0 THEN [fds EXCEPT ![fileWriter] = FALSE] ELSE fds
         IN /\ today' = now
            /\ active' = file
            /\ fds' = Append(old, TRUE)
            /\ fileWriter' = Len(fds) + 1
            /\ maxSizeCurSize' = FileSize(file)
            /\ dailyOpenDate' = now
            /\ maxLinesCurLines' = lines(file)
            /\ status' = 1
            /\ consumers' = IF asyncLen > 0
                              THEN consumers (+) SetToBag({AtSelect})
                              ELSE consumers

\* ------------------------------------------------------------------ file names
\* A path is a sequence of characters.  The paths of the model have no
\* trailing separator and no empty element.
LastIndex(s, ch) ==
  IF \E i \in DOMAIN s : s[i] = ch
    THEN CHOOSE i \in DOMAIN s : s[i] = ch /\ \A j \in DOMAIN s : s[j] = ch => j <= i
    ELSE 0

\* filepath.Base: the last element of the path
Base(path) == SubSeq(path, LastIndex(path, "/") + 1, Len(path))

\* filepath.Dir: the path without its last element, "." if there is none
Dir(path) ==
  IF LastIndex(path, "/") = 0 THEN <<".">> ELSE SubSeq(path, 1, LastIndex(path, "/") - 1)

\* filepath.Ext: from the last dot of the last element on, empty without a dot
Ext(path) ==
  IF LastIndex(Base(path), ".") = 0
    THEN <<>>
    ELSE SubSeq(Base(path), LastIndex(Base(path), "."), Len(Base(path)))

HasPrefix(s, prefix) == Len(prefix) <= Len(s) /\ SubSeq(s, 1, Len(prefix)) = prefix

HasSuffix(s, end) ==
  Len(end) <= Len(s) /\ SubSeq(s, Len(s) - Len(end) + 1, Len(s)) = end

TrimSuffix(s, end) == IF HasSuffix(s, end) THEN SubSeq(s, 1, Len(s) - Len(end)) ELSE s

\* file.go:69-73
fileNameOnly == TrimSuffix(Filename, Ext(Filename))
suffix == IF Ext(Filename) = <<>> THEN <<".", "l", "o", "g">> ELSE Ext(Filename)

Digit(i) == <<"0", "1", "2", "3", "4", "5", "6", "7", "8", "9">>[i + 1]

\* fmt.Sprintf("%03d", num), and the day as Format("2006-01-02") shows it
\* within one month
Num3(num) == <<Digit(num \div 100), Digit((num \div 10) % 10), Digit(num % 10)>>
DateStamp(date) == <<Digit(date \div 10), Digit(date % 10)>>

\* file.go:265 fName
ArchiveName(date, num) ==
  fileNameOnly \o <<".">> \o DateStamp(date) \o <<".">> \o Num3(num) \o suffix

\* the path of another entry of the directory of the log file
OtherPath(name) == IF LastIndex(Filename, "/") = 0 THEN name ELSE Dir(Filename) \o <<"/">> \o name

\* ------------------------------------------------------------------ file.go:246-279
\* The date stamp of the archive name, and the first free index for it.
\* a date stamp that is always the day of the record
RecordDate(logDay) == logDay

\* file.go:254-262 modTime
ArchiveDate(logDay) ==
  IF Daily /\ logDay # dailyOpenDate THEN active.mtime ELSE logDay

\* an os.Lstat that finds no file under any name
NameAlwaysFree(date, num) == TRUE

\* file.go:266 os.Lstat(fName) returns an error: no file has that name
NameFree(date, num) == <<date, num>> \notin DOMAIN archives

HasFreeName(date) == \E n \in 1..maxFileIndex : NameFree(date, n)

\* a probe that stops at the first name whether it is taken or not
FirstIndex(date) == 1

\* file.go:264-267 the probe loop stops at the first name that os.Lstat
\* does not find
FirstFree(date) ==
  CHOOSE n \in 1..maxFileIndex :
    NameFree(date, n) /\ \A m \in 1..(n - 1) : ~NameFree(date, m)

RenameOutcomes == IF "renameFails" \in env THEN BOOLEAN ELSE {TRUE}

\* ------------------------------------------------------------------ Log, file.go:122-150
\* rec.Time.Day() of the record handed to Log
RecDays(now) == IF "lateRecords" \in env THEN 1..now ELSE {now}

\* file.go:123 statusLock.RLock: a pending Lock holds new readers back
LogEnter(c) ==
  /\ pc[c] = "idle"
  /\ ncalls < MaxMsgs
  /\ lockWait = {}
  /\ \E now \in Clock :
       /\ today' = now
       /\ \E d \in RecDays(now) : rec' = [rec EXCEPT ![c] = d]
  /\ ncalls' = ncalls + 1
  /\ readers' = readers \cup {c}
  /\ pc' = [pc EXCEPT ![c] = "entered"]
  /\ UNCHANGED <<cfgvars, sweepvars, errs, status, lockWait, mu, fdvars, ctrvars, chanvars, consumers,
                 fsvars, kpc, kmsg, nsent, written, lost, closeFx, lateWrite, panicked,
                 spins, skipped>>

\* a Log that does not look at the status
GateOpen(c) == FALSE

\* file.go:124 the status gate
Gate(c) == status = 0

\* file.go:133-134 the unlocked rotation check; the length of the message
\* plays no part in needRotate
Due(c) == Rotate /\ needRotate(0, rec[c])

\* file.go:124-134: the status gate, then the unlocked rotation check
LogStatus(c) ==
  /\ pc[c] = "entered"
  /\ IF Gate(c)
       THEN /\ readers' = readers \ {c}
            /\ pc' = [pc EXCEPT ![c] = "idle"]
       ELSE /\ readers' = readers
            /\ pc' = [pc EXCEPT ![c] = IF Due(c) THEN "lock" ELSE "dispatch"]
  /\ UNCHANGED <<cfgvars, sweepvars, errs, status, lockWait, mu, fdvars, ctrvars, chanvars, consumers,
                 fsvars, today, rec, kpc, kmsg, histvars>>

\* a Log that rotates on the strength of the unlocked check alone
RecheckAlways(c) == TRUE

\* file.go:136 the check repeated under the write lock
Recheck(c) == needRotate(0, rec[c])

\* file.go:135-136 (and 141 when the re-check says no)
LogLock(c) ==
  /\ pc[c] = "lock"
  /\ mu = NoOne
  /\ IF Recheck(c)
       THEN mu' = c /\ pc' = [pc EXCEPT ![c] = "rotate"] /\ skipped' = skipped
       ELSE mu' = mu /\ pc' = [pc EXCEPT ![c] = "dispatch"] /\ skipped' = TRUE
  /\ UNCHANGED <<cfgvars, sweepvars, errs, status, readers, lockWait, fdvars, ctrvars, chanvars, consumers,
                 fsvars, today, rec, kpc, kmsg,
                 ncalls, nsent, written, lost, closeFx, lateWrite, panicked, spins>>

\* file.go:247-279: find the name, close the descriptor, rename.  An early
\* error return leads to the Unlock of file.go:141.
DoRotateClose(c) ==
  /\ pc[c] = "rotate"
  /\ LET date == ArchiveDate(rec[c]) IN
     IF ~active.exists \/ ~HasFreeName(date)
       THEN /\ mu' = NoOne
            /\ pc' = [pc EXCEPT ![c] = "dispatch"]
            /\ errs' = errs \cup {IF active.exists THEN "full" ELSE "lstat"}
            /\ UNCHANGED <<fdvars, fsvars>>
       ELSE /\ fds' = [fds EXCEPT ![fileWriter] = FALSE]
            /\ fileWriter' = fileWriter
            /\ errs' = errs
            /\ \E renameOk \in RenameOutcomes :
                 IF renameOk
                   THEN /\ archives' = archives @@ (<<date, FirstFree(date)>> :> active)
                        /\ active' = NoFile
                   ELSE UNCHANGED fsvars
            /\ mu' = mu
            /\ pc' = [pc EXCEPT ![c] = "restart"]
  /\ UNCHANGED <<cfgvars, sweepvars, status, readers, lockWait, ctrvars, chanvars, consumers,
                 today, rec, kpc, kmsg, histvars>>

\* file.go:281-290, then the error report of file.go:137-139 and the Unlock
\* of file.go:141.  In a file that is still at w.Filename the rename failed.
DoRotateRestart(c) ==
  /\ pc[c] = "restart"
  /\ \E openOk \in OpenOutcomes :
       /\ startLogger(openOk)
       /\ errs' = IF ~openOk THEN errs \cup {"start"}
                  ELSE IF active.exists THEN errs \cup {"rename"}
                  ELSE errs
  /\ sweeps' = IF "sweep" \in env THEN sweeps + 1 ELSE sweeps
  /\ mu' = NoOne
  /\ pc' = [pc EXCEPT ![c] = "dispatch"]
  /\ UNCHANGED <<cfgvars, others, readers, lockWait, chanvars, archives,
                 rec, kpc, kmsg, histvars>>

\* file.go:144-149: hand the message to the queue, or write it; then RUnlock
LogDispatch(c) ==
  /\ pc[c] = "dispatch"
  /\ IF asyncLen > 0
       THEN /\ IF msgChanClosed
                 THEN /\ panicked' = TRUE
                      /\ pc' = [pc EXCEPT ![c] = "panic"]
                      /\ UNCHANGED <<readers, asyncMsgChan, nsent>>
                 ELSE /\ Len(asyncMsgChan) < asyncLen
                      /\ asyncMsgChan' = Append(asyncMsgChan, nsent + 1)
                      /\ nsent' = nsent + 1
                      /\ readers' = readers \ {c}
                      /\ pc' = [pc EXCEPT ![c] = "idle"]
                      /\ panicked' = panicked
            /\ UNCHANGED <<today, active, archives, ctrvars, written, lost, lateWrite, mu>>
       ELSE /\ write(nsent + 1)
            /\ nsent' = nsent + 1
            /\ readers' = readers \ {c}
            /\ pc' = [pc EXCEPT ![c] = "idle"]
            /\ UNCHANGED <<asyncMsgChan, panicked>>
  /\ UNCHANGED <<cfgvars, sweepvars, errs, status, lockWait, fdvars, msgChanClosed, signalChanClosed,
                 consumers, rec, kpc, kmsg, ncalls, closeFx, spins, skipped>>

\* ------------------------------------------------------------------ consumer, file.go:97-106
Move(from, to) == (consumers (-) SetToBag({from})) (+) SetToBag({to})

\* file.go:100 a message is ready: a buffered one, or the empty message a
\* closed channel yields
ConsumerRecv ==
  /\ BagIn(AtSelect, consumers)
  /\ \/ /\ asyncMsgChan # <<>>
        /\ consumers' = Move(AtSelect, Holding(Head(asyncMsgChan)))
        /\ asyncMsgChan' = Tail(asyncMsgChan)
        /\ spins' = spins
     \/ /\ asyncMsgChan = <<>>
        /\ msgChanClosed
        /\ spins < MaxSpins
        /\ consumers' = Move(AtSelect, Holding(NilMsg))
        /\ asyncMsgChan' = asyncMsgChan
        /\ spins' = spins + 1
  /\ UNCHANGED <<cfgvars, sweepvars, errs, lockvars, fdvars, ctrvars, msgChanClosed, signalChanClosed,
                 fsvars, today, pc, rec, kpc, kmsg,
                 ncalls, nsent, written, lost, closeFx, lateWrite, panicked, skipped>>

\* file.go:101
ConsumerWrite(m) ==
  /\ BagIn(Holding(m), consumers)
  /\ write(m)
  /\ consumers' = Move(Holding(m), AtSelect)
  /\ UNCHANGED <<cfgvars, sweepvars, errs, status, readers, lockWait, fdvars, chanvars,
                 pc, rec, kpc, kmsg, ncalls, nsent, closeFx, panicked, spins, skipped>>

\* file.go:102-103 on the closed signal channel
ConsumerStop ==
  /\ BagIn(AtSelect, consumers)
  /\ signalChanClosed
  /\ consumers' = consumers (-) SetToBag({AtSelect})
  /\ UNCHANGED <<cfgvars, sweepvars, errs, lockvars, fdvars, ctrvars, chanvars,
                 fsvars, today, pc, rec, kpc, kmsg, histvars>>

\* ------------------------------------------------------------------ Close, file.go:157-175
\* file.go:158 statusLock.Lock is requested
CloseEnter(k) ==
  /\ kpc[k] = "idle"
  /\ lockWait' = lockWait \cup {k}
  /\ kpc' = [kpc EXCEPT ![k] = "lock"]
  /\ UNCHANGED <<cfgvars, sweepvars, errs, status, readers, mu, fdvars, ctrvars, chanvars, consumers,
                 fsvars, today, pc, rec, kmsg, histvars>>

\* a Close that does not wait for the Log calls in flight
LockGrantedAtOnce(k) == TRUE

\* file.go:158 the exclusive lock is granted when no reader is left
LockGranted(k) == readers = {}

\* a Close that does not look at the status
NeverClosed(k) == FALSE

\* file.go:159 a Close that finds the backend closed returns
AlreadyClosed(k) == status = 0

\* file.go:158-164
CloseLock(k) ==
  /\ kpc[k] = "lock"
  /\ LockGranted(k)
  /\ lockWait' = lockWait \ {k}
  /\ IF AlreadyClosed(k)
       THEN /\ status' = status
            /\ kpc' = [kpc EXCEPT ![k] = "done"]
       ELSE /\ status' = 0
            /\ kpc' = [kpc EXCEPT ![k] = IF asyncLen > 0 THEN "signal" ELSE "sync"]
  /\ UNCHANGED <<cfgvars, sweepvars, errs, readers, mu, fdvars, ctrvars, chanvars, consumers,
                 fsvars, today, pc, rec, kmsg, histvars>>

\* file.go:166 the send on the unbuffered channel meets one consumer in its select
CloseSignal(k) ==
  /\ kpc[k] = "signal"
  /\ IF signalChanClosed
       THEN /\ panicked' = TRUE
            /\ kpc' = [kpc EXCEPT ![k] = "panic"]
            /\ UNCHANGED <<consumers, closeFx>>
       ELSE /\ BagIn(AtSelect, consumers)
            /\ consumers' = consumers (-) SetToBag({AtSelect})
            /\ closeFx' = [closeFx EXCEPT !.signal = @ + 1]
            /\ kpc' = [kpc EXCEPT ![k] = "chans"]
            /\ panicked' = panicked
  /\ UNCHANGED <<cfgvars, sweepvars, errs, lockvars, fdvars, ctrvars, chanvars,
                 fsvars, today, pc, rec, kmsg, ncalls, nsent, written, lost, lateWrite,
                 spins, skipped>>

\* file.go:167-168
CloseChans(k) ==
  /\ kpc[k] = "chans"
  /\ IF signalChanClosed \/ msgChanClosed
       THEN /\ panicked' = TRUE
            /\ kpc' = [kpc EXCEPT ![k] = "panic"]
            /\ UNCHANGED <<msgChanClosed, signalChanClosed, closeFx>>
       ELSE /\ signalChanClosed' = TRUE
            /\ msgChanClosed' = TRUE
            /\ closeFx' = [closeFx EXCEPT !.chans = @ + 1]
            /\ kpc' = [kpc EXCEPT ![k] = "drain"]
            /\ panicked' = panicked
  /\ UNCHANGED <<cfgvars, sweepvars, errs, lockvars, fdvars, ctrvars, asyncMsgChan, consumers,
                 fsvars, today, pc, rec, kmsg, ncalls, nsent, written, lost, lateWrite,
                 spins, skipped>>

\* file.go:169 the range over the closed channel: next message, or the end
CloseDrain(k) ==
  /\ kpc[k] = "drain"
  /\ IF asyncMsgChan = <<>>
       THEN /\ kpc' = [kpc EXCEPT ![k] = "sync"]
            /\ UNCHANGED <<asyncMsgChan, kmsg>>
       ELSE /\ kmsg' = [kmsg EXCEPT ![k] = Head(asyncMsgChan)]
            /\ asyncMsgChan' = Tail(asyncMsgChan)
            /\ kpc' = [kpc EXCEPT ![k] = "drainwrite"]
  /\ UNCHANGED <<cfgvars, sweepvars, errs, lockvars, fdvars, ctrvars, msgChanClosed, signalChanClosed,
                 consumers, fsvars, today, pc, rec, histvars>>

\* file.go:170
CloseDrainWrite(k) ==
  /\ kpc[k] = "drainwrite"
  /\ write(kmsg[k])
  /\ kpc' = [kpc EXCEPT ![k] = "drain"]
  /\ kmsg' = [kmsg EXCEPT ![k] = NilMsg]
  /\ UNCHANGED <<cfgvars, sweepvars, errs, status, readers, lockWait, fdvars, chanvars, consumers,
                 pc, rec, ncalls, nsent, closeFx, panicked, spins, skipped>>

\* file.go:173-174
CloseSync(k) ==
  /\ kpc[k] = "sync"
  /\ fds' = IF fileWriter # 0 THEN [fds EXCEPT ![fileWriter] = FALSE] ELSE fds
  /\ closeFx' = [closeFx EXCEPT !.fdClose = @ + 1]
  /\ kpc' = [kpc EXCEPT ![k] = "done"]
  /\ UNCHANGED <<cfgvars, sweepvars, errs, lockvars, fileWriter, ctrvars, chanvars, consumers,
                 fsvars, today, pc, rec, kmsg, ncalls, nsent, written, lost, lateWrite,
                 panicked, spins, skipped>>

\* ------------------------------------------------------------------ deleteOldLog, file.go:294-311
\* The test of file.go:303-305 on one entry that filepath.Walk visits.  Time
\* stamps are whole days, so that 60*60*24*MaxDays seconds are MaxDays units.
Doomed(path, isDir, mtime, now) ==
  /\ ~isDir
  /\ mtime < now - MaxDays
  /\ HasPrefix(Base(path), fileNameOnly)
  /\ HasSuffix(Base(path), suffix)

\* One walk over the directory of the log file, by one of the goroutines of
\* file.go:282.  It takes no lock.  A removed file that the backend holds
\* open loses its name; the descriptor stays open.
Sweep ==
  /\ sweeps > 0
  /\ \E now \in Clock :
       /\ today' = now
       /\ active' = IF active.exists /\ Doomed(Filename, FALSE, active.mtime, now)
                      THEN NoFile ELSE active
       /\ archives' = [k \in {a \in DOMAIN archives :
                                ~Doomed(ArchiveName(a[1], a[2]), FALSE, archives[a].mtime, now)}
                         |-> archives[k]]
       /\ others' = [n \in {o \in DOMAIN others :
                              ~Doomed(OtherPath(o), others[o].isDir, others[o].mtime, now)}
                       |-> others[n]]
  /\ sweeps' = sweeps - 1
  /\ UNCHANGED <<cfgvars, lockvars, fdvars, ctrvars, chanvars, consumers,
                 pc, rec, kpc, kmsg, histvars, errs>>

\* ------------------------------------------------------------------ construction
\* The state NewDefaultFileBackend (file.go:50-81) returns, after the caller has
\* set the exported fields.  The file at w.Filename did not exist before; the
\* directory held the archives found.
ConstructedIn(found, openOk) ==
  /\ status = (IF openOk THEN 1 ELSE 0)
  /\ fileWriter = (IF openOk THEN 1 ELSE 0)
  /\ fds = (IF openOk THEN <<TRUE>> ELSE <<>>)
  /\ active = (IF openOk THEN NewFile(1) ELSE NoFile)
  /\ consumers = (IF openOk /\ asyncLen > 0 THEN SetToBag({AtSelect}) ELSE EmptyBag)
  /\ maxLinesCurLines = 0
  /\ maxSizeCurSize = 0
  /\ dailyOpenDate = (IF openOk THEN 1 ELSE 0)
  /\ readers = {}
  /\ lockWait = {}
  /\ mu = NoOne
  /\ asyncMsgChan = <<>>
  /\ msgChanClosed = FALSE
  /\ signalChanClosed = FALSE
  /\ archives = found
  /\ today = 1
  /\ pc = [c \in Callers |-> "idle"]
  /\ rec = [c \in Callers |-> 1]
  /\ kpc = [k \in Closers |-> "idle"]
  /\ kmsg = [k \in Closers |-> NilMsg]
  /\ ncalls = 0
  /\ nsent = 0
  /\ written = <<>>
  /\ lost = {}
  /\ closeFx = [signal |-> 0, chans |-> 0, fdClose |-> 0]
  /\ lateWrite = FALSE
  /\ panicked = FALSE
  /\ spins = 0
  /\ skipped = FALSE
  /\ sweeps = 0
  /\ errs = {}

\* the same in a directory without archives
Constructed(openOk) == ConstructedIn(<<>>, openOk)

\* Rotation by line count only, in sync mode and in async mode with a queue
\* of one of the given capacities
LineConfig(capacities) ==
  /\ asyncLen \in {0} \cup capacities
  /\ MaxLines \in {1, 2}
  /\ MaxSize = 0
  /\ Daily = FALSE
  /\ Rotate = TRUE

\* The log file "d/a.l" in a directory that holds nothing else, kept for the
\* default seven days (file.go:60)
PathInDir == <<"d", "/", "a", ".", "l">>
DefaultMaxDays == 7

PlainDir ==
  /\ Filename = PathInDir
  /\ MaxDays = DefaultMaxDays
  /\ others = <<>>

\* No system call fails, the clock stays within one day
Init ==
  /\ LineConfig({1, 2})
  /\ PlainDir
  /\ env = {}
  /\ Constructed(TRUE)

\* os.Rename and os.OpenFile may fail, in the constructor too
InitFaults ==
  /\ LineConfig({1})
  /\ PlainDir
  /\ env = {"renameFails", "openFails"}
  /\ \E openOk \in OpenOutcomes : Constructed(openOk)

Next ==
  \/ \E c \in Callers : LogEnter(c)
  \/ \E c \in Callers : LogStatus(c)
  \/ \E c \in Callers : LogLock(c)
  \/ \E c \in Callers : DoRotateClose(c)
  \/ \E c \in Callers : DoRotateRestart(c)
  \/ \E c \in Callers : LogDispatch(c)
  \/ ConsumerRecv
  \/ \E m \in 0..MaxMsgs : ConsumerWrite(m)
  \/ ConsumerStop
  \/ \E k \in Closers : CloseEnter(k)
  \/ \E k \in Closers : CloseLock(k)
  \/ \E k \in Closers : CloseSignal(k)
  \/ \E k \in Closers : CloseChans(k)
  \/ \E k \in Closers : CloseDrain(k)
  \/ \E k \in Closers : CloseDrainWrite(k)
  \/ \E k \in Closers : CloseSync(k)

Spec == Init /\ [][Next]_vars

SpecFaults == InitFaults /\ [][Next]_vars

\* ------------------------------------------------------------------ retention
\* The log file "a.l", given without a directory
PathBare == <<"a", ".", "l">>

\* What the directory of the log file holds besides the files of the backend,
\* all last modified on the day of construction: a file and a directory whose
\* names begin and end as the log file's do, and a file named otherwise
Neighbours ==
  (<<"a", "2", ".", "l">> :> [isDir |-> FALSE, mtime |-> 1]) @@
  (<<"a", "d", ".", "l">> :> [isDir |-> TRUE, mtime |-> 1]) @@
  (<<"b", ".", "l">> :> [isDir |-> FALSE, mtime |-> 1])

\* Rotation by line count in sync mode with the sweeps running, files kept
\* for no day or for one, and midnight passing
InitSweep ==
  /\ LineConfig({})
  /\ Filename \in {PathInDir, PathBare}
  /\ MaxDays \in {0, 1}
  /\ others = Neighbours
  /\ env = {"sweep", "dayChange"}
  /\ Constructed(TRUE)

\* One goroutine calls Log, nobody calls Close
NextSweep ==
  \/ LogEnter("g1")
  \/ LogStatus("g1")
  \/ LogLock("g1")
  \/ DoRotateClose("g1")
  \/ DoRotateRestart("g1")
  \/ LogDispatch("g1")
  \/ Sweep

SpecSweep == InitSweep /\ [][NextSweep]_vars

\* ------------------------------------------------------------------ rotation by day, size and lines
\* archives found at construction: of the first day, the numbers 1 and 3, or
\* every number from 1 to maxFileIndex
FileOfDay(day) == [exists |-> TRUE, lines |-> <<>>, mtime |-> day]
SomeTaken == (<<1, 1>> :> FileOfDay(1)) @@ (<<1, 3>> :> FileOfDay(1))
AllTaken == [k \in {1} \X (1..maxFileIndex) |-> FileOfDay(1)]

\* Any mix of the three rotation rules, rotation switched on or off, midnight
\* passing, records that carry an earlier day than the clock shows
InitRotate ==
  /\ asyncLen = 0
  /\ MaxLines \in {0, 2}
  /\ MaxSize \in {0, 3}
  /\ Daily \in BOOLEAN
  /\ Rotate \in BOOLEAN
  /\ PlainDir
  /\ env = {"dayChange", "lateRecords", "sweep"}
  /\ \E found \in {<<>>, SomeTaken} : ConstructedIn(found, TRUE)

\* Log calls in sync mode and the sweeps they start; nobody calls Close
NextRotate ==
  \/ \E c \in Callers : LogEnter(c)
  \/ \E c \in Callers : LogStatus(c)
  \/ \E c \in Callers : LogLock(c)
  \/ \E c \in Callers : DoRotateClose(c)
  \/ \E c \in Callers : DoRotateRestart(c)
  \/ \E c \in Callers : LogDispatch(c)
  \/ Sweep

SpecRotate == InitRotate /\ [][NextRotate]_vars

\* ------------------------------------------------------------------ no archive name left
\* Rotation by line count, and by day or not, in a directory where every
\* archive name of the first day is taken; midnight may pass
InitFull ==
  /\ asyncLen \in {0, 1}
  /\ MaxLines = 1
  /\ MaxSize = 0
  /\ Daily \in BOOLEAN
  /\ Rotate = TRUE
  /\ PlainDir
  /\ env = {"dayChange", "sweep"}
  /\ ConstructedIn(AllTaken, TRUE)

\* One goroutine calls Log and the consumer delivers; nobody calls Close, and
\* the sweeps that the rotations start do not get to run before the run ends
NextFull ==
  \/ LogEnter("g1")
  \/ LogStatus("g1")
  \/ LogLock("g1")
  \/ DoRotateClose("g1")
  \/ DoRotateRestart("g1")
  \/ LogDispatch("g1")
  \/ ConsumerRecv
  \/ \E m \in 1..MaxMsgs : ConsumerWrite(m)

SpecFull == InitFull /\ [][NextFull]_vars

\* ------------------------------------------------------------------ scheduling
\* The Go scheduler runs every goroutine that can take a step: a Log call or
\* a Close call that has started, and a consumer.  Nothing makes a goroutine
\* start a call.
LogRuns(c) ==
  \/ LogStatus(c) \/ LogLock(c) \/ DoRotateClose(c) \/ DoRotateRestart(c) \/ LogDispatch(c)

CloseRuns(k) ==
  \/ CloseLock(k) \/ CloseSignal(k) \/ CloseChans(k)
  \/ CloseDrain(k) \/ CloseDrainWrite(k) \/ CloseSync(k)

ConsumerRuns == ConsumerRecv \/ (\E m \in 0..MaxMsgs : ConsumerWrite(m)) \/ ConsumerStop

Fairness ==
  /\ \A c \in Callers : WF_vars(LogRuns(c))
  /\ \A k \in Closers : WF_vars(CloseRuns(k))
  /\ WF_vars(ConsumerRuns)

\* Rotation at every line, in sync mode and with a queue of one
InitFair ==
  /\ LineConfig({1})
  /\ MaxLines = 1
  /\ PlainDir
  /\ env = {}
  /\ Constructed(TRUE)

FairSpec == InitFair /\ [][Next]_vars /\ Fairness

\* ================================================================== properties
\* messages held by the files on disk: the active file and the archives
Lines(f) == IF f.exists THEN {f.lines[i] : i \in DOMAIN f.lines} ELSE {}
OnDisk == Lines(active) \cup UNION {Lines(archives[n]) : n \in DOMAIN archives}

\* the Close call that did the work has returned
CloseReturned == closeFx.fdClose > 0

Increasing(s) == \A i, j \in DOMAIN s : i < j => s[i] < s[j]

\* C1: in async mode, once Close has returned, every message that Log sent on
\* the queue is in the active file or in an archive, and none is left queued.
C1_NothingLostAfterClose ==
  (asyncLen > 0 /\ CloseReturned) =>
     /\ \A m \in 1..nsent : m \in OnDisk
     /\ asyncMsgChan = <<>>

\* C2: in async mode, messages are appended to the file in the order in which
\* Log sent them on the queue (message k is the k-th one sent).
C2_WrittenInQueueOrder == asyncLen > 0 => Increasing(written)

\* C3: in async mode, while the status is Running exactly one consumer
\* goroutine drains the queue.
C3_OneConsumerWhileRunning == (asyncLen > 0 /\ status = 1) => LiveConsumers = 1

\* C4: with max-lines L > 0, rotation enabled, no size and no daily limit, the
\* active file never holds more than L lines.
C4_ActiveWithinMaxLines ==
  (Rotate /\ MaxLines > 0 /\ MaxSize = 0 /\ ~Daily /\ active.exists) =>
     Len(active.lines) <= MaxLines

\* C5: callers that all saw the same line-limit crossing in the unlocked check
\* rotate once between them: every rotation archives a file that had reached
\* the limit, so no crossing yields a second or an empty archive.
C5_OneArchivePerCrossing ==
  (Rotate /\ MaxLines > 0 /\ MaxSize = 0 /\ ~Daily) =>
     \A n \in DOMAIN archives : Len(archives[n].lines) >= MaxLines

\* C5 witness: both callers were sent to the write lock, one of them rotated
\* and the other's re-check said no
C5_Witness ==
  /\ skipped
  /\ Cardinality(DOMAIN archives) = 1
  /\ maxLinesCurLines = 0
  /\ \A c \in Callers : pc[c] = "dispatch"

\* C6: over all Close calls the shutdown signal is sent at most once, the
\* channels are closed at most once and the descriptor is synced and closed at
\* most once; no Close panics on a closed channel.
C6_CloseOnce ==
  /\ closeFx.signal <= 1
  /\ closeFx.chans <= 1
  /\ closeFx.fdClose <= 1
  /\ ~panicked

\* C6 witness: two Close calls have returned in async mode, after one signal,
\* one close of the channels and one close of the descriptor
C6_Witness ==
  /\ asyncLen > 0
  /\ \A k \in Closers : kpc[k] = "done"
  /\ closeFx = [signal |-> 1, chans |-> 1, fdClose |-> 1]

\* C7: a status of 0 (Closed, or never started) is never followed by 1.
C7_StatusMonotonic == [][status = 0 => status' = 0]_vars

\* C7 witness: Close has closed a backend that rotated before, and every
\* caller and consumer has come to rest
C7_Witness ==
  /\ status = 0
  /\ CloseReturned
  /\ DOMAIN archives # {}
  /\ \A c \in Callers : pc[c] = "idle"
  /\ ncalls = MaxMsgs

\* a Log call leaves the backend alone: nothing but its own position and its
\* read lock changes
LogLeavesBackend(c) ==
  /\ pc'[c] = "idle"
  /\ UNCHANGED <<status, mu, fdvars, ctrvars, chanvars, consumers, fsvars,
                 nsent, written, lost>>

\* C8: a Log call that finds the status not Running returns at once and changes
\* nothing; and once Close has closed the queue no Log is past the status
\* gate, so none sends on the closed channel.
C8_LogAfterCloseIsNoOp ==
  /\ [][\A c \in Callers :
          (pc[c] = "entered" /\ status = 0 /\ pc'[c] # pc[c]) => LogLeavesBackend(c)]_vars
  /\ [](msgChanClosed => \A c \in Callers : pc[c] \in {"idle", "entered"})
  /\ [](~panicked)

\* C8 witness: a Log call holds the read lock of a closed backend in async
\* mode, after Close has closed the queue
C8_Witness ==
  /\ msgChanClosed
  /\ status = 0
  /\ \E c \in Callers : pc[c] = "entered"

\* C9: no Write is issued on the descriptor after Close has closed it.
C9_NoWriteAfterClose == ~lateWrite

\* C10: while the status is Running and the write lock is free, the backend
\* holds exactly one open descriptor, w.fileWriter, on the file at w.Filename;
\* it never holds two.
C10_OneOpenDescriptor ==
  /\ OpenCount <= 1
  /\ (status = 1 /\ mu = NoOne) => (OpenCount = 1 /\ WriterOpen /\ active.exists)

\* a sweep ran in this step, reading the clock at today'
SweepStep == sweeps' < sweeps

\* the name begins with the base name of the log file and ends with its
\* suffix, as the archives that rotation makes do
MatchesLogName(name) == HasPrefix(name, Base(fileNameOnly)) /\ HasSuffix(name, suffix)

\* C11: a retention sweep deletes every file of the log directory, not a
\* directory, whose name begins with the base name and ends with the suffix and
\* that was modified before now - MaxDays, the archives of rotation among
\* them, whether the filename has a directory part or not; it leaves every
\* other entry as it was.
C11_SweepDeletesOldMatching ==
  [][SweepStep =>
       /\ \A k \in DOMAIN archives :
            IF archives[k].mtime < today' - MaxDays
              THEN k \notin DOMAIN archives'
              ELSE k \in DOMAIN archives' /\ archives'[k] = archives[k]
       /\ \A n \in DOMAIN others :
            IF ~others[n].isDir /\ MatchesLogName(n) /\ others[n].mtime < today' - MaxDays
              THEN n \notin DOMAIN others'
              ELSE n \in DOMAIN others' /\ others'[n] = others[n]]_vars

\* C12: a retention sweep never deletes the active file, whatever MaxDays is
\* and however late after the rotation the sweep runs.
C12_SweepKeepsActive == [][SweepStep /\ active.exists => active'.exists]_vars

\* the rotation of caller c renamed the active file in this step
RenameStep(c) == pc[c] = "rotate" /\ active.exists /\ ~active'.exists

RotationDue(c) ==
  \/ (MaxLines > 0 /\ maxLinesCurLines >= MaxLines)
  \/ (MaxSize > 0 /\ maxSizeCurSize >= MaxSize)
  \/ (Daily /\ rec[c] # dailyOpenDate)

\* C15: Log goes for the write lock exactly when Rotate is set and the line
\* limit or the size limit is reached or, with Daily, the day of the record is
\* not the opened day, and it rotates exactly when that still holds under the
\* lock; the length of the message takes no part; with Rotate unset, Log never
\* rotates.
C15_NeedRotate ==
  /\ [][\A c \in Callers :
          (pc[c] = "entered" /\ status = 1 /\ pc'[c] # pc[c])
             => (pc'[c] = "lock" <=> (Rotate /\ RotationDue(c)))]_vars
  /\ [][\A c \in Callers :
          (pc[c] = "lock" /\ pc'[c] # pc[c]) => (pc'[c] = "rotate" <=> RotationDue(c))]_vars
  /\ [](~Rotate => /\ \A c \in Callers : pc[c] \notin {"lock", "rotate", "restart"}
                   /\ Len(fds) = 1
                   /\ sweeps = 0)

\* C15 witness: under the size limit alone, a call is about to write the
\* message that takes the file to the limit, and it did not rotate
C15_Witness ==
  \E c \in Callers :
    /\ pc[c] = "dispatch"
    /\ readers = {c}
    /\ Rotate /\ MaxSize > 0 /\ MaxLines = 0 /\ ~Daily
    /\ maxSizeCurSize < MaxSize
    /\ maxSizeCurSize + MsgLen(nsent + 1) >= MaxSize
    /\ archives = <<>>

\* C16: when the rename of a rotation failed and the reopen succeeds, doRotate
\* leaves the backend Running with one open descriptor on the file still at
\* w.Filename, the counters set from the lines and bytes that file holds, and
\* the rename error printed; the call goes on to hand its message over, and
\* in sync mode the message is appended to that file.
C16_RenameFailureRecovers ==
  /\ [][\A c \in Callers :
          (pc[c] = "restart" /\ pc'[c] # pc[c] /\ active.exists /\ fileWriter' # fileWriter)
             => /\ status' = 1
                /\ fds'[fileWriter']
                /\ Cardinality({i \in DOMAIN fds' : fds'[i]}) = 1
                /\ active' = active
                /\ maxLinesCurLines' = Len(active.lines)
                /\ maxSizeCurSize' = FileSize(active)
                /\ "rename" \in errs'
                /\ mu' = NoOne
                /\ pc'[c] = "dispatch"]_vars
  /\ [][\A c \in Callers :
          (pc[c] = "dispatch" /\ pc'[c] # pc[c] /\ asyncLen = 0 /\ WriterOpen /\ active.exists)
             => /\ written' = Append(written, nsent + 1)
                /\ active'.lines = Append(active.lines, nsent + 1)]_vars

\* C16 witness: the only rotation so far failed to rename a file that holds
\* a message and reopened it; its caller is about to hand its message over
C16_Witness ==
  \E c \in Callers :
    /\ pc[c] = "dispatch"
    /\ readers = {c}
    /\ errs = {"rename"}
    /\ Len(fds) = 2
    /\ WriterOpen
    /\ status = 1
    /\ archives = <<>>
    /\ active.exists
    /\ active.lines # <<>>
    /\ maxLinesCurLines = Len(active.lines)

\* every archive name of the date that doRotate would use for the record of
\* caller c is taken
AllNamesTaken(c) ==
  LET date == IF Daily /\ rec[c] # dailyOpenDate THEN active.mtime ELSE rec[c]
  IN \A n \in 1..maxFileIndex : <<date, n>> \in DOMAIN archives

\* C17: when every number from 1 to maxFileIndex is taken for the archive
\* date, doRotate returns an error before it touches anything: the descriptor
\* stays open, no file is renamed, the counters stay, no sweep is started; the
\* Log call goes on and writes its message to the active file, or queues it.
C17_ExhaustionTouchesNothing ==
  /\ [][\A c \in Callers :
          (pc[c] = "rotate" /\ pc'[c] # pc[c] /\ active.exists /\ AllNamesTaken(c))
             => /\ UNCHANGED <<fdvars, fsvars, ctrvars, sweepvars, status>>
                /\ "full" \in errs'
                /\ mu' = NoOne
                /\ pc'[c] = "dispatch"]_vars
  /\ [][\A c \in Callers :
          (pc[c] = "dispatch" /\ pc'[c] # pc[c])
             => IF asyncLen = 0
                  THEN active'.lines = Append(active.lines, nsent + 1)
                  ELSE asyncMsgChan' = Append(asyncMsgChan, nsent + 1)]_vars

\* C17 witness: the one rotation tried so far found every name taken; the
\* descriptor opened at construction is still the open one, no sweep was
\* started, and the caller is about to hand its message over
C17_Witness ==
  \E c \in Callers :
    /\ pc[c] = "dispatch"
    /\ errs = {"full"}
    /\ AllNamesTaken(c)
    /\ fds = <<TRUE>>
    /\ fileWriter = 1
    /\ sweeps = 0
    /\ maxLinesCurLines >= MaxLines
    /\ active.lines # <<>>

\* C18: whenever the write lock is free, the line counter is the number of
\* lines of the active file and the size counter is its length in bytes.
C18_CountersMatchFile ==
  (mu = NoOne /\ active.exists)
     => (maxLinesCurLines = Len(active.lines) /\ maxSizeCurSize = FileSize(active))

\* C19: with Daily, a rotation that renamed the file and reopened it leaves
\* the opened day equal to the day of the record that triggered it, whatever
\* the clock shows at that time, so that the next record of that day does not
\* rotate again.
C19_OpenedDayIsRecordDay ==
  [][\A c \in Callers :
       (Daily /\ pc[c] = "restart" /\ pc'[c] # pc[c] /\ ~active.exists /\ fileWriter' # fileWriter)
          => dailyOpenDate' = rec[c]]_vars

\* no Log call and no Close call is in progress
Quiet ==
  /\ \A c \in Callers : pc[c] = "idle"
  /\ \A k \in Closers : kpc[k] \in {"idle", "done"}

\* C20: under fair scheduling every Log call and every Close call that has
\* started returns.  The calls of a run are finitely many, so this says that
\* from some point on no call is in progress.
C20_CallsReturn == <>[]Quiet

\* C20 witness: a Log call holds the read lock and waits for room in the full
\* queue, the consumer has a message to write, and a Close call waits for the
\* exclusive lock behind two Log calls
C20_Witness ==
  \E c, d \in Callers, k \in Closers :
    /\ pc[c] = "dispatch"
    /\ asyncLen > 0
    /\ Len(asyncMsgChan) = asyncLen
    /\ pc[d] = "entered"
    /\ {c, d} \subseteq readers
    /\ kpc[k] = "lock"
    /\ \E m \in 1..MaxMsgs : BagIn(Holding(m), consumers)

====
